---------------------------- MODULE Spec2Model ----------------------------
(***************************************************************************)
(* Model of the medicine-ball throw measurement pipeline                   *)
(* (AntarDrishti_Core/AntarDristhi_MedicineBall/medicineBall.py).          *)
(*                                                                         *)
(* One call of ThrowDistanceMeasurer.process_video is one behaviour.       *)
(* Optional values are sequences: None is << >>, an optional integer x is  *)
(* <<x>>.  Floats are exact rationals <<num, den>> with den > 0 in lowest  *)
(* terms; distance_cm is kept in hundredths of a centimetre and distance_m *)
(* in thousandths of a metre, i.e. after round(.., 2) and round(.., 3).    *)
(***************************************************************************)
EXTENDS Integers, Sequences, FiniteSets, TLC

VARIABLES
    cfg,            \* Config fields and the arguments of process_video
    pc,             \* position in process_video: init, loop, finally, done
    cap,            \* the cv2.VideoCapture: none, unopened, open, released
    frame_count,    \* frames read so far
    scale,          \* local scale of _process
    person_x_hint,  \* local person_x_hint of _process
    pose_result,    \* local pose_result of _process (last value assigned)
    all_balls,      \* local all_balls of _process: sequence of <<x, y, frame>>
    origin_x,       \* local origin_x of _process
    landing,        \* local (landing_x, landing_y, landing_frame)
    result,         \* the MeasurementResult returned by _process/process_video
    exc,            \* TRUE when an exception propagates out of _process
    calls,          \* collaborator calls of the last pass of the loop, in order
    key,            \* last value of cv2.waitKey(1) & 0xFF: None, <<"q">>, <<"none">>
    frame,          \* what the detectors see in the frames of a one-frame
                    \* video: [landmarks, contours]; None when not recorded
    users,          \* db.users of the dashboard backend: candidate id -> verification
    admin_audit,    \* db.admin_audit: the audit entries in insertion order
    requests,       \* the verify_candidate requests: position, arguments, locals
    replaced        \* per request: the verification its update_one replaced

\* the dashboard backend (SAI_Dashboard/backend/server.py)
server == <<users, admin_audit, requests, replaced>>

\* the measurement pipeline (medicineBall.py)
measurement == <<cfg, pc, cap, frame_count, scale, person_x_hint, pose_result,
                 all_balls, origin_x, landing, result, exc, calls, key, frame>>

vars == <<cfg, pc, cap, frame_count, scale, person_x_hint, pose_result,
          all_balls, origin_x, landing, result, exc, calls, key, frame, server>>

None == << >>

----------------------------------------------------------------------------
(* Bounds of the model *)

\* longest video of the frame-by-frame specification
MaxFrames == 4

\* longest collected trajectory of the analysis specification
MaxTraj == 6

\* number of verify_candidate requests the backend serves
MaxRequests == 2

----------------------------------------------------------------------------
(* Program constants *)

min_ball_area == 15
landmark_visibility_threshold == 30      \* 0.3, visibilities in percent
MinPixelHeight == 30
NearPersonPx == 200
BucketWidth == 50
StaticRadiusPx == 75
StaticCentreOffset == 25
MovementPx == 20
MinTrajectory == 3

\* 0.35, 0.2, 1.5, 0.4 and 0.5 as rationals
TorsoRatio == <<7, 20>>
ScaleLow == <<1, 5>>
ScaleHigh == <<3, 2>>
StaticShare == <<2, 5>>
DefaultScale == <<1, 2>>

----------------------------------------------------------------------------
(* Arithmetic on rationals <<num, den>>, den > 0 *)

Abs(x) == IF x < 0 THEN -x ELSE x

RECURSIVE GCD(_, _)
GCD(a, b) == IF b = 0 THEN a ELSE GCD(b, a % b)

Rat(n, d) ==
    LET g == GCD(Abs(n), Abs(d))
        s == IF d < 0 THEN -1 ELSE 1
    IN  <<(s * n) \div g, (s * d) \div g>>

RatLe(a, b) == a[1] * b[2] <= b[1] * a[2]
RatLt(a, b) == a[1] * b[2] < b[1] * a[2]

\* the element of a one-element set: Only({ e(v) : v \in {d} }) is e(d)
Only(S) == CHOOSE x \in S : TRUE

\* Python round(): to the nearest integer, ties to the even one
RoundHalfEven(n, d) ==
    LET q == n \div d
        r == n - q * d
    IN  IF 2 * r < d THEN q
        ELSE IF 2 * r > d THEN q + 1
        ELSE IF q % 2 = 0 THEN q ELSE q + 1

----------------------------------------------------------------------------
(* BallDetector.detect, from the contours cv2.findContours returns.        *)
(* A contour is [area, m00, m10, m01]: cv2.contourArea and cv2.moments.    *)

Contour(a, m0, m1x, m1y) == [area |-> a, m00 |-> m0, m10 |-> m1x, m01 |-> m1y]

\* mutant of line 145: a later contour of the same area replaces the best
RECURSIVE BestContour_later_tie(_, _, _, _)
BestContour_later_tie(contours, i, best, best_area) ==
    IF i > Len(contours) THEN best
    ELSE IF contours[i].area > min_ball_area /\ contours[i].area >= best_area
         THEN BestContour_later_tie(contours, i + 1, i, contours[i].area)
         ELSE BestContour_later_tie(contours, i + 1, best, best_area)

\* the loop of lines 143-147: index of best_contour, 0 for None
RECURSIVE BestContour(_, _, _, _)
BestContour(contours, i, best, best_area) ==
    IF i > Len(contours) THEN best
    ELSE IF contours[i].area > min_ball_area /\ contours[i].area > best_area
         THEN BestContour(contours, i + 1, i, contours[i].area)
         ELSE BestContour(contours, i + 1, best, best_area)

detect(contours) ==
    LET b == BestContour(contours, 1, 0, 0)
    IN  IF b = 0 THEN None
        ELSE IF contours[b].m00 = 0 THEN None
        ELSE <<contours[b].m10 \div contours[b].m00,
               contours[b].m01 \div contours[b].m00>>

----------------------------------------------------------------------------
(* PoseEstimator.get_person_x, from the landmarks MediaPipe returns.       *)
(* A landmark is [x, y, vis]: x and y in pixels (landmark.x * width,       *)
(* landmark.y * height), vis in percent.  result.pose_landmarks is None or *)
(* <<lm>>.                                                                 *)

Landmark(px, py, v) == [x |-> px, y |-> py, vis |-> v]

Visible(l, r) ==
    l.vis >= landmark_visibility_threshold /\ r.vis >= landmark_visibility_threshold

\* mutant of lines 200-203: the ankles are tried before the hips
PersonX_ankles_first(lm) ==
    IF Visible(lm.left_ankle, lm.right_ankle)
    THEN <<(lm.left_ankle.x + lm.right_ankle.x) \div 2>>
    ELSE IF Visible(lm.left_hip, lm.right_hip)
    THEN <<(lm.left_hip.x + lm.right_hip.x) \div 2>>
    ELSE None

\* lines 199-203
PersonX(lm) ==
    IF Visible(lm.left_hip, lm.right_hip)
    THEN <<(lm.left_hip.x + lm.right_hip.x) \div 2>>
    ELSE IF Visible(lm.left_ankle, lm.right_ankle)
    THEN <<(lm.left_ankle.x + lm.right_ankle.x) \div 2>>
    ELSE None

\* mutant of lines 213-220: the torso estimate is tried before the ankles
PixelHeight_hips_first(lm) ==
    IF lm.nose.vis >= landmark_visibility_threshold
    THEN IF Visible(lm.left_hip, lm.right_hip)
         THEN Rat(Abs(lm.left_hip.y + lm.right_hip.y - 2 * lm.nose.y) * TorsoRatio[2],
                  2 * TorsoRatio[1])
         ELSE IF Visible(lm.left_ankle, lm.right_ankle)
         THEN Rat(Abs(lm.left_ankle.y + lm.right_ankle.y - 2 * lm.nose.y), 2)
         ELSE None
    ELSE None

\* lines 209-220: None or the pixel height as a rational
PixelHeight(lm) ==
    IF lm.nose.vis >= landmark_visibility_threshold
    THEN IF Visible(lm.left_ankle, lm.right_ankle)
         THEN Rat(Abs(lm.left_ankle.y + lm.right_ankle.y - 2 * lm.nose.y), 2)
         ELSE IF Visible(lm.left_hip, lm.right_hip)
         THEN Rat(Abs(lm.left_hip.y + lm.right_hip.y - 2 * lm.nose.y) * TorsoRatio[2],
                  2 * TorsoRatio[1])
         ELSE None
    ELSE None

get_person_x(landmarks) ==
    IF landmarks = None THEN None
    ELSE IF PersonX(landmarks[1]) = None THEN None
    ELSE <<PersonX(landmarks[1])[1], PixelHeight(landmarks[1])>>

----------------------------------------------------------------------------
(* The frames the model's videos are made of: what the two detectors see.  *)

\* a skeleton standing at x: nose, hips and ankles at the given heights
Skeleton(x, nose_y, hip_y, ankle_y, nose_v, hip_v, ankle_v) ==
    [nose        |-> Landmark(x, nose_y, nose_v),
     left_hip    |-> Landmark(x - 10, hip_y, hip_v),
     right_hip   |-> Landmark(x + 10, hip_y, hip_v),
     left_ankle  |-> Landmark(x - 12, ankle_y - 1, ankle_v),
     right_ankle |-> Landmark(x + 12, ankle_y + 1, ankle_v)]

\* result.pose_landmarks of each kind of frame: None, or <<landmarks>>
LandmarkInputs ==
    { None,
      << Skeleton(400, 100, 170, 200, 90, 10, 10) >>,   \* neither pair visible
      << Skeleton(0, 100, 170, 200, 10, 90, 10) >>,     \* hips only, no nose
      << Skeleton(900, 100, 110, 120, 90, 90, 90) >>,   \* height 20
      << Skeleton(900, 100, 140, 200, 90, 10, landmark_visibility_threshold) >>,  \* height 100
      << Skeleton(0, 100, 170, 300, 90, 90, 10) >>,     \* torso 70: height 200
      << Skeleton(900, 100, 120, 150, 90, 90, 90) >>,   \* height 50
      << Skeleton(0, 100, 130, 160, 90, 90, 90) >> }    \* height 60

\* the contours of each kind of frame
ContourInputs ==
    { << >>,
      << Contour(min_ball_area, 15, 1500, 750) >>,                        \* too small
      << Contour(40, 0, 0, 0), Contour(30, 30, 3000, 1500) >>,            \* degenerate best
      << Contour(100, 100, 10000, 5000) >>,                               \* (100, 50)
      << Contour(10, 10, 10, 10), Contour(50, 50, 5049, 2549) >>,         \* (100, 50)
      << Contour(200, 200, 60000, 80000), Contour(100, 100, 10000, 5000) >>,   \* (300, 400)
      << Contour(80, 80, 24000, 32000), Contour(80, 80, 8000, 4000) >> }  \* (300, 400)

PoseResults == { get_person_x(lm) : lm \in LandmarkInputs }
BallResults == { detect(c) : c \in ContourInputs }

----------------------------------------------------------------------------
(* The fold of one frame's person signal, lines 369-381 *)

\* line 377: ph and ph > 30
UsableHeight(ph) == ph # None /\ ph[1] # 0 /\ RatLt(<<MinPixelHeight, 1>>, ph)

\* line 378: athlete_height_cm / ph
CandidateScale(athlete_height_cm, ph) == Rat(athlete_height_cm * ph[2], ph[1])

\* mutants of line 379: the upper bound dropped; both bounds strict
InScaleRange_no_upper(s) == RatLe(ScaleLow, s)
InScaleRange_strict(s) == RatLt(ScaleLow, s) /\ RatLt(s, ScaleHigh)

\* line 379: 0.2 <= candidate_scale <= 1.5
InScaleRange(s) == RatLe(ScaleLow, s) /\ RatLe(s, ScaleHigh)

\* line 370: the pose estimator is asked only while something is missing
PoseWanted(sc, hint) == sc = None \/ hint = None

\* mutant of line 374: every signal replaces the hint
NewHint_last_wins(hint, pose) ==
    IF pose # None THEN <<pose[1]>> ELSE hint

\* lines 374-375
NewHint(hint, pose) ==
    IF pose # None /\ hint = None THEN <<pose[1]>> ELSE hint

\* mutant of line 377: a scale that is already set is replaced
NewScale_overwrites(sc, pose, athlete_height_cm) ==
    IF pose # None /\ UsableHeight(pose[2])
       /\ InScaleRange(CandidateScale(athlete_height_cm, pose[2]))
    THEN CandidateScale(athlete_height_cm, pose[2])
    ELSE sc

\* lines 377-380
NewScale(sc, pose, athlete_height_cm) ==
    IF pose # None /\ sc = None /\ UsableHeight(pose[2])
       /\ InScaleRange(CandidateScale(athlete_height_cm, pose[2]))
    THEN CandidateScale(athlete_height_cm, pose[2])
    ELSE sc

\* mutant of line 386: the observation is tagged with its rank, not its frame
Append_ball_ranked(balls, ball_pos, f) ==
    IF ball_pos # None
    THEN Append(balls, <<ball_pos[1], ball_pos[2], Len(balls) + 1>>)
    ELSE balls

\* lines 385-386
Append_ball(balls, ball_pos, f) ==
    IF ball_pos # None THEN Append(balls, <<ball_pos[1], ball_pos[2], f>>)
    ELSE balls

----------------------------------------------------------------------------
(* Origin resolution, lines 428-473 *)

\* line 434
BallsNearPerson(balls, hint) ==
    SelectSeq(balls, LAMBDA b : Abs(b[1] - hint) < NearPersonPx)

\* line 444
Bucket(x) == (x \div BucketWidth) * BucketWidth

\* position_counts[bucket], lines 442-445
PositionCount(balls, bucket) ==
    Cardinality({i \in 1..Len(balls) : Bucket(balls[i][1]) = bucket})

\* line 447: max over the dict in insertion order returns the first bucket
\* inserted among those of the largest count
StaticBucket(balls) ==
    LET counts == [i \in 1..Len(balls) |-> PositionCount(balls, Bucket(balls[i][1]))]
        most   == CHOOSE m \in {counts[i] : i \in 1..Len(balls)} :
                      \A i \in 1..Len(balls) : counts[i] <= m
        first  == CHOOSE i \in 1..Len(balls) :
                      counts[i] = most /\ \A j \in 1..(i - 1) : counts[j] # most
    IN  Bucket(balls[first][1])

\* mutant of line 450: a share of exactly 0.4 counts as static
IsStaticCluster_at_least(balls) ==
    PositionCount(balls, StaticBucket(balls)) * StaticShare[2]
        >= Len(balls) * StaticShare[1]

\* line 450: static_count > len(all_balls) * 0.4
IsStaticCluster(balls) ==
    PositionCount(balls, StaticBucket(balls)) * StaticShare[2]
        > Len(balls) * StaticShare[1]

\* line 451, for a given static_bucket
KeepFarFrom(balls, static_bucket) ==
    SelectSeq(balls, LAMBDA b :
        Abs(b[1] - static_bucket - StaticCentreOffset) > StaticRadiusPx)

FilteredBalls(balls) ==
    Only({ KeepFarFrom(balls, static_bucket) : static_bucket \in { StaticBucket(balls) } })

\* mutant of line 453: two remaining points are enough to filter
FilterStatic_keeps_two(balls) ==
    LET filtered_balls == FilteredBalls(balls)
    IN  IF IsStaticCluster(balls) /\ Len(filtered_balls) >= MinTrajectory - 1
        THEN filtered_balls
        ELSE balls

\* lines 450-455: the trajectory after the static filter
FilterStatic(balls) ==
    LET filtered_balls == FilteredBalls(balls)
    IN  IF IsStaticCluster(balls) /\ Len(filtered_balls) >= MinTrajectory
        THEN filtered_balls
        ELSE balls

\* lines 458-463: i runs over range(len(all_balls) - 3), here 1-based
MovementIndices(balls) ==
    {i \in 1..(Len(balls) - 3) : Abs(balls[i + 2][1] - balls[i][1]) > MovementPx}

Min(S) == CHOOSE m \in S : \A n \in S : m <= n
Max(S) == CHOOSE m \in S : \A n \in S : m >= n

MovementStart(balls, default) ==
    IF MovementIndices(balls) = {} THEN default
    ELSE balls[Max({1, Min(MovementIndices(balls)) - 1})][1]

\* mutant of line 437: the last detection near the person is the origin
ResolveOrigin_last_near(balls, hint) ==
    IF hint = None
    THEN [balls |-> balls, origin_x |-> balls[1][1]]
    ELSE IF BallsNearPerson(balls, hint[1]) # << >>
    THEN [balls |-> balls,
          origin_x |-> BallsNearPerson(balls, hint[1])
                           [Len(BallsNearPerson(balls, hint[1]))][1]]
    ELSE Only({ [balls |-> kept, origin_x |-> MovementStart(kept, kept[1][1])] :
                    kept \in { FilterStatic(balls) } })

\* mutant of line 455: the origin is not moved to the filtered trajectory
ResolveOrigin_stale_origin(balls, hint) ==
    IF hint = None
    THEN [balls |-> balls, origin_x |-> balls[1][1]]
    ELSE IF BallsNearPerson(balls, hint[1]) # << >>
    THEN [balls |-> balls, origin_x |-> BallsNearPerson(balls, hint[1])[1][1]]
    ELSE Only({ [balls |-> kept, origin_x |-> MovementStart(kept, balls[1][1])] :
                    kept \in { FilterStatic(balls) } })

\* mutant of line 432: the filter and the scan also run without a person
ResolveOrigin_no_hint_scans(balls, hint) ==
    IF hint # None /\ BallsNearPerson(balls, hint[1]) # << >>
    THEN [balls |-> balls, origin_x |-> BallsNearPerson(balls, hint[1])[1][1]]
    ELSE Only({ [balls |-> kept, origin_x |-> MovementStart(kept, kept[1][1])] :
                    kept \in { FilterStatic(balls) } })

\* lines 429-468: the trajectory kept and the heuristic origin
ResolveOrigin(balls, hint) ==
    IF hint = None
    THEN [balls |-> balls, origin_x |-> balls[1][1]]
    ELSE IF BallsNearPerson(balls, hint[1]) # << >>
    THEN [balls |-> balls, origin_x |-> BallsNearPerson(balls, hint[1])[1][1]]
    ELSE Only({ [balls |-> kept, origin_x |-> MovementStart(kept, kept[1][1])] :
                    kept \in { FilterStatic(balls) } })

\* lines 471-472: if self.config.manual_origin_x
ManualOrigin(manual_origin_x, heuristic) ==
    IF manual_origin_x # None /\ manual_origin_x[1] # 0
    THEN manual_origin_x[1]
    ELSE heuristic

\* mutant of line 479: another default
FinalScale_one(sc) == IF sc = None THEN <<1, 1>> ELSE sc

\* lines 476-479
FinalScale(sc) == IF sc = None THEN DefaultScale ELSE sc

\* mutant of line 483: the last index of the largest y
LandingIdx_last(balls) ==
    CHOOSE i \in 1..Len(balls) :
        /\ \A j \in 1..Len(balls) : balls[j][2] <= balls[i][2]
        /\ \A j \in (i + 1)..Len(balls) : balls[j][2] < balls[i][2]

\* mutant of line 483: min for max, the highest point of the image
LandingIdx_min_y(balls) ==
    CHOOSE i \in 1..Len(balls) :
        /\ \A j \in 1..Len(balls) : balls[j][2] >= balls[i][2]
        /\ \A j \in 1..(i - 1) : balls[j][2] > balls[i][2]

\* line 483: max over range(len) returns the first index of the largest y
LandingIdx(balls) ==
    CHOOSE i \in 1..Len(balls) :
        /\ \A j \in 1..Len(balls) : balls[j][2] <= balls[i][2]
        /\ \A j \in 1..(i - 1) : balls[j][2] < balls[i][2]

\* lines 489-490 and 509: round(abs(landing_x - origin_x) * scale, 2), in 1/100 cm
DistanceCm(landing_x, origin, sc) ==
    RoundHalfEven(Abs(landing_x - origin) * sc[1] * 100, sc[2])

\* line 510: round(dist_cm / 100, 3), in 1/1000 m
DistanceM(landing_x, origin, sc) ==
    RoundHalfEven(Abs(landing_x - origin) * sc[1] * 10, sc[2])

----------------------------------------------------------------------------
(* MeasurementResult, lines 89-98 (processing_time_ms left out) *)

MeasurementResult(st, dcm, dm, cs, tp, msg) ==
    [status |-> st, distance_cm |-> dcm, distance_m |-> dm,
     calibration_scale |-> cs, trajectory_points |-> tp, error_message |-> msg]

\* mutants of line 421: the threshold off by one, either way
TooFew_below_two(balls) == Len(balls) < MinTrajectory - 1
TooFew_up_to_three(balls) == Len(balls) <= MinTrajectory

\* line 421
TooFew(balls) == Len(balls) < MinTrajectory

\* the analysis after the loop, lines 418-513: the locals it leaves and its result
Analyze(balls, hint, sc, config) ==
    IF TooFew(balls)
    THEN [all_balls |-> balls, origin_x |-> None, landing |-> None, scale |-> sc,
          result |-> MeasurementResult("INVALID", None, None, None, Len(balls),
                                       <<"Not enough ball detections">>)]
    ELSE Only({
           LET ox == ManualOrigin(config.manual_origin_x, r.origin_x)
               fs == FinalScale(sc)
               l  == r.balls[LandingIdx(r.balls)]
           IN  [all_balls |-> r.balls, origin_x |-> <<ox>>, landing |-> l, scale |-> fs,
                result |-> MeasurementResult("VALID",
                                             <<DistanceCm(l[1], ox, fs)>>,
                                             <<DistanceM(l[1], ox, fs)>>,
                                             fs, Len(r.balls), None)] :
           r \in { ResolveOrigin(balls, hint) } })

----------------------------------------------------------------------------
(* The dashboard backend, SAI_Dashboard/backend/server.py: verify_candidate *)
(* (lines 752-796) and log_audit (lines 92-106).  The handlers are          *)
(* coroutines of one event loop: a request runs without interruption from   *)
(* one await to the next, and other requests run at each await.             *)

Requests == 1..MaxRequests

\* the _id of the documents of db.users, a well-formed id of no document,
\* and a string ObjectId() rejects
Candidates == { "c1", "c2" }
WellFormedIds == Candidates \cup { "c9" }
CandidateIds == WellFormedIds \cup { "not-an-id" }

\* new_status, lines 764-769: adminId, note and updatedAt make the value of
\* each request its own
NewStatus(r) == <<r>>

\* candidate.get("verification", {}), line 761: {} is None
InitialUsers == [c \in Candidates |-> None]

IdleRequest == [pc |-> "idle", candidate_id |-> None, before_state |-> None,
                response |-> None]

ServerInit ==
    /\ users = InitialUsers
    /\ admin_audit = << >>
    /\ requests = [r \in Requests |-> IdleRequest]
    /\ replaced = [r \in Requests |-> None]

\* line 757: ObjectId(candidate_id) raises InvalidId, caught at line 794
BadId(r, id) ==
    /\ requests[r].pc = "idle"
    /\ id \notin WellFormedIds
    /\ requests' = [requests EXCEPT ![r] =
                       [@ EXCEPT !.pc = "done", !.candidate_id = <<id>>,
                                 !.response = <<500>>]]
    /\ UNCHANGED <<measurement, users, admin_audit, replaced>>

\* lines 757-759: find_one finds no document
NotFound(r, id) ==
    /\ requests[r].pc = "idle"
    /\ id \in WellFormedIds
    /\ id \notin DOMAIN users
    /\ requests' = [requests EXCEPT ![r] =
                       [@ EXCEPT !.pc = "done", !.candidate_id = <<id>>,
                                 !.response = <<404>>]]
    /\ UNCHANGED <<measurement, users, admin_audit, replaced>>

\* lines 757-761: find_one returns the document, before_state is read from it
FindOne(r, id) ==
    /\ requests[r].pc = "idle"
    /\ id \in WellFormedIds
    /\ id \in DOMAIN users
    /\ requests' = [requests EXCEPT ![r] =
                       [@ EXCEPT !.pc = "update", !.candidate_id = <<id>>,
                                 !.before_state = users[id]]]
    /\ UNCHANGED <<measurement, users, admin_audit, replaced>>

\* lines 771-774: update_one sets the verification of the document
UpdateOne(r) ==
    /\ requests[r].pc = "update"
    /\ users' = [users EXCEPT ![requests[r].candidate_id[1]] = NewStatus(r)]
    /\ replaced' = [replaced EXCEPT ![r] = <<users[requests[r].candidate_id[1]]>>]
    /\ requests' = [requests EXCEPT ![r] = [@ EXCEPT !.pc = "audit"]]
    /\ UNCHANGED <<measurement, admin_audit>>

\* lines 777-791 and 92-106: log_audit inserts the entry, the handler returns
LogAudit(r) ==
    /\ requests[r].pc = "audit"
    /\ admin_audit' = Append(admin_audit,
                             [request  |-> r,
                              targetId |-> requests[r].candidate_id[1],
                              before   |-> requests[r].before_state,
                              after    |-> NewStatus(r)])
    /\ requests' = [requests EXCEPT ![r] = [@ EXCEPT !.pc = "done", !.response = <<200>>]]
    /\ UNCHANGED <<measurement, users, replaced>>

----------------------------------------------------------------------------
(* Configurations and calls: Config (lines 68-70) and the arguments of     *)
(* process_video (line 321)                                                *)

ManualScales == { None, <<-1, 2>>, <<4, 5>> }
ManualOrigins == { None, <<0>>, <<50>> }
AthleteHeights == { 30, 150 }

Configs ==
    [manual_scale_cm_per_px : ManualScales,
     manual_origin_x : ManualOrigins,
     athlete_height_cm : AthleteHeights,
     show_preview : BOOLEAN]

\* cv2.waitKey(1) & 0xFF == ord('q'), line 415
Keys == { "q", "none" }

Init ==
    /\ cfg \in Configs
    /\ pc = "init"
    /\ cap = "none"
    /\ frame_count = 0
    /\ scale = None
    /\ person_x_hint = None
    /\ pose_result = None
    /\ all_balls = << >>
    /\ origin_x = None
    /\ landing = None
    /\ result = None
    /\ exc = FALSE
    /\ calls = << >>
    /\ key = None
    /\ frame = None
    /\ ServerInit

locals == <<frame_count, scale, person_x_hint, pose_result, all_balls, origin_x, landing>>

----------------------------------------------------------------------------
(* process_video, lines 321-339 *)

\* lines 325-326: the path does not exist
VideoNotFound ==
    /\ pc = "init"
    /\ pc' = "done"
    /\ result' = MeasurementResult("ERROR", None, None, None, 0, <<"Video not found">>)
    /\ UNCHANGED <<server, frame, cfg, cap, locals, exc, calls, key>>

\* mutant of lines 329-330: the failure is noticed once frames were read
CannotOpen_in_loop ==
    /\ pc = "loop"
    /\ frame_count > 0
    /\ pc' = "done"
    /\ cap' = "unopened"
    /\ result' = MeasurementResult("ERROR", None, None, None, 0, <<"Cannot open video">>)
    /\ UNCHANGED <<server, frame, cfg, locals, exc, calls, key>>

\* lines 328-330: the capture is constructed and is not opened
CannotOpen ==
    /\ pc = "init"
    /\ pc' = "done"
    /\ cap' = "unopened"
    /\ result' = MeasurementResult("ERROR", None, None, None, 0, <<"Cannot open video">>)
    /\ UNCHANGED <<server, frame, cfg, locals, exc, calls, key>>

\* lines 328-333 and 342-358: the capture opens and _process initialises
OpenVideo ==
    /\ pc = "init"
    /\ pc' = "loop"
    /\ cap' = "open"
    /\ scale' = cfg.manual_scale_cm_per_px
    /\ all_balls' = << >>
    /\ person_x_hint' = None
    /\ frame_count' = 0
    /\ UNCHANGED <<server, frame, cfg, pose_result, origin_x, landing, result, exc, calls, key>>

\* lines 413-415: the preview polls the keyboard once the frame is folded
Cancelled(show_preview, k) == show_preview /\ k = "q"

\* mutant of line 416: the return is missing and the loop goes on
AfterPoll_no_return(show_preview, k) == "loop"

\* line 416: the return leaves the loop, otherwise the next frame is read
AfterPoll(show_preview, k) ==
    IF Cancelled(show_preview, k) THEN "finally" ELSE "loop"

\* the calls of one pass of the loop over a frame, lines 362-415
FrameCalls(pose_wanted, show_preview) ==
    <<"read">>
        \o (IF pose_wanted THEN <<"get_person_x">> ELSE << >>)
        \o <<"detect">>
        \o (IF show_preview THEN <<"waitKey">> ELSE << >>)

\* line 415: what the poll returns, None when the preview is off
Polled(show_preview, k) == IF show_preview THEN <<k>> ELSE None

\* mutant of lines 370 and 377: every frame's signal is folded and an
\* adoptable candidate replaces the scale
ProcessFrame_rederive(pose, ball_pos, k) ==
    /\ pc = "loop"
    /\ cap = "open"
    /\ frame_count < MaxFrames
    /\ frame_count' = frame_count + 1
    /\ pose_result' = pose
    /\ person_x_hint' = NewHint(person_x_hint, pose)
    /\ scale' = IF pose # None /\ UsableHeight(pose[2])
                   /\ InScaleRange(CandidateScale(cfg.athlete_height_cm, pose[2]))
                THEN CandidateScale(cfg.athlete_height_cm, pose[2])
                ELSE scale
    /\ all_balls' = Append_ball(all_balls, ball_pos, frame_count + 1)
    /\ calls' = FrameCalls(TRUE, cfg.show_preview)
    /\ key' = Polled(cfg.show_preview, k)
    /\ result' = IF Cancelled(cfg.show_preview, k)
                 THEN MeasurementResult("CANCELLED", None, None, None, 0, None)
                 ELSE result
    /\ pc' = AfterPoll(cfg.show_preview, k)
    /\ UNCHANGED <<server, frame, cfg, cap, origin_x, landing, exc>>

\* mutant of lines 384-416: the keyboard is polled before the ball detector
\* runs, and a cancelled pass leaves without detecting
ProcessFrame_poll_first(pose, ball_pos, k) ==
    /\ pc = "loop"
    /\ cap = "open"
    /\ frame_count < MaxFrames
    /\ frame_count' = frame_count + 1
    /\ IF PoseWanted(scale, person_x_hint)
       THEN /\ pose_result' = pose
            /\ person_x_hint' = NewHint(person_x_hint, pose)
            /\ scale' = NewScale(scale, pose, cfg.athlete_height_cm)
       ELSE UNCHANGED <<pose_result, person_x_hint, scale>>
    /\ all_balls' = IF Cancelled(cfg.show_preview, k) THEN all_balls
                    ELSE Append_ball(all_balls, ball_pos, frame_count + 1)
    /\ calls' = <<"read">>
                    \o (IF PoseWanted(scale, person_x_hint)
                        THEN <<"get_person_x">> ELSE << >>)
                    \o (IF cfg.show_preview THEN <<"waitKey">> ELSE << >>)
                    \o (IF Cancelled(cfg.show_preview, k) THEN << >> ELSE <<"detect">>)
    /\ key' = Polled(cfg.show_preview, k)
    /\ result' = IF Cancelled(cfg.show_preview, k)
                 THEN MeasurementResult("CANCELLED", None, None, None, 0, None)
                 ELSE result
    /\ pc' = AfterPoll(cfg.show_preview, k)
    /\ UNCHANGED <<server, frame, cfg, cap, origin_x, landing, exc>>

\* mutant of lines 362-386: a frame on which neither detector finds anything
\* is processed again
ProcessFrame_retry(pose, ball_pos, k) ==
    /\ pc = "loop"
    /\ cap = "open"
    /\ frame_count < MaxFrames
    /\ frame_count' = IF pose = None /\ ball_pos = None
                      THEN frame_count ELSE frame_count + 1
    /\ IF PoseWanted(scale, person_x_hint)
       THEN /\ pose_result' = pose
            /\ person_x_hint' = NewHint(person_x_hint, pose)
            /\ scale' = NewScale(scale, pose, cfg.athlete_height_cm)
       ELSE UNCHANGED <<pose_result, person_x_hint, scale>>
    /\ all_balls' = Append_ball(all_balls, ball_pos, frame_count + 1)
    /\ calls' = IF pose = None /\ ball_pos = None
                THEN FrameCalls(PoseWanted(scale, person_x_hint), FALSE)
                        \o FrameCalls(PoseWanted(scale, person_x_hint), cfg.show_preview)
                ELSE FrameCalls(PoseWanted(scale, person_x_hint), cfg.show_preview)
    /\ key' = Polled(cfg.show_preview, k)
    /\ result' = IF Cancelled(cfg.show_preview, k)
                 THEN MeasurementResult("CANCELLED", None, None, None, 0, None)
                 ELSE result
    /\ pc' = AfterPoll(cfg.show_preview, k)
    /\ UNCHANGED <<server, frame, cfg, cap, origin_x, landing, exc>>

\* one iteration of the loop, lines 362-416, on a frame the source delivers
ProcessFrame(pose, ball_pos, k) ==
    /\ pc = "loop"
    /\ cap = "open"
    /\ frame_count < MaxFrames
    /\ frame_count' = frame_count + 1
    /\ IF PoseWanted(scale, person_x_hint)
       THEN /\ pose_result' = pose
            /\ person_x_hint' = NewHint(person_x_hint, pose)
            /\ scale' = NewScale(scale, pose, cfg.athlete_height_cm)
       ELSE UNCHANGED <<pose_result, person_x_hint, scale>>
    /\ all_balls' = Append_ball(all_balls, ball_pos, frame_count + 1)
    /\ calls' = FrameCalls(PoseWanted(scale, person_x_hint), cfg.show_preview)
    /\ key' = Polled(cfg.show_preview, k)
    /\ result' = IF Cancelled(cfg.show_preview, k)
                 THEN MeasurementResult("CANCELLED", None, None, None, 0, None)
                 ELSE result
    /\ pc' = AfterPoll(cfg.show_preview, k)
    /\ UNCHANGED <<server, frame, cfg, cap, origin_x, landing, exc>>

\* the calls of the last pass, lines 362-364, and of the display of a VALID
\* result, lines 496-507 (last_frame is set once three frames were read)
LastCalls(status, show_preview) ==
    <<"read">>
        \o (IF status = "VALID" /\ show_preview THEN <<"waitKey(0)">> ELSE << >>)

\* lines 362-364 and 418-513: the source is exhausted, the analysis runs
EndOfStream ==
    /\ pc = "loop"
    /\ cap = "open"
    /\ \E a \in { Analyze(all_balls, person_x_hint, scale, cfg) } :
           /\ all_balls' = a.all_balls
           /\ origin_x' = a.origin_x
           /\ landing' = a.landing
           /\ scale' = a.scale
           /\ result' = a.result
           /\ calls' = LastCalls(a.result.status, cfg.show_preview)
    /\ pc' = "finally"
    /\ UNCHANGED <<server, frame, cfg, cap, frame_count, person_x_hint, pose_result, exc, key>>

\* lines 336-337: the finally clause, then the return reaches the caller
Release ==
    /\ pc = "finally"
    /\ cap' = "released"
    /\ pc' = "done"
    /\ UNCHANGED <<server, frame, cfg, locals, result, exc, calls, key>>

\* a detector raises on a frame (line 384): the exception leaves _process
\* through the finally clause and no result is returned
Raise(pose) ==
    /\ pc = "loop"
    /\ cap = "open"
    /\ frame_count < MaxFrames
    /\ frame_count' = frame_count + 1
    /\ IF PoseWanted(scale, person_x_hint)
       THEN /\ pose_result' = pose
            /\ person_x_hint' = NewHint(person_x_hint, pose)
            /\ scale' = NewScale(scale, pose, cfg.athlete_height_cm)
       ELSE UNCHANGED <<pose_result, person_x_hint, scale>>
    /\ calls' = FrameCalls(PoseWanted(scale, person_x_hint), FALSE)
    /\ exc' = TRUE
    /\ pc' = "finally"
    /\ UNCHANGED <<server, frame, cfg, cap, all_balls, origin_x, landing, result, key>>

Next ==
    \/ VideoNotFound
    \/ CannotOpen
    \/ OpenVideo
    \/ \E pose \in PoseResults, ball_pos \in BallResults, k \in Keys :
           ProcessFrame(pose, ball_pos, k)
    \/ EndOfStream
    \/ Release

\* the collaborators keep their contracts: no detector raises
Spec == Init /\ [][Next]_vars

NextExc ==
    \/ Next
    \/ \E pose \in PoseResults : Raise(pose)

\* a detector may raise
SpecExc == Init /\ [][NextExc]_vars

\* calls with the preview disabled: nothing waits for the keyboard
InitLive == Init /\ ~cfg.show_preview

\* the interpreter goes on executing process_video: every statement of the
\* loop returns, cap.read() of a finite source answers, and no detector raises
SpecLive == InitLive /\ [][Next]_vars /\ WF_vars(Next)

----------------------------------------------------------------------------
(* The analysis on its own: the loop has consumed a video of up to MaxTraj *)
(* frames, each with a detection, and the source is exhausted.             *)

\* ball positions: those of ContourInputs and two more, one within
\* MovementPx of the first and one in a bucket far from the others
TrajectoryPoints == { <<100, 50>>, <<120, 50>>, <<300, 400>>, <<620, 450>> }

Trajectories == UNION { [1..n -> TrajectoryPoints] : n \in 0..MaxTraj }

\* what the fold leaves for an athlete of 150 cm: hint, scale, last signal
FoldOutcomes ==
    { <<None, None, None>>,
      << <<0>>, None, <<0, None>> >>,
      << <<900>>, None, <<900, <<20, 1>>>> >>,
      << <<0>>, <<3, 4>>, <<0, <<200, 1>>>> >>,
      << <<900>>, <<3, 2>>, <<900, <<100, 1>>>> >>,
      << <<900>>, <<2, 3>>, <<900, <<225, 1>>>> >> }

InitAnalyze ==
    /\ cfg \in { c \in Configs : /\ c.manual_scale_cm_per_px = None
                                 /\ c.athlete_height_cm = 150
                                 /\ ~c.show_preview }
    /\ pc = "loop"
    /\ cap = "open"
    /\ \E t \in Trajectories :
          /\ all_balls = [i \in 1..Len(t) |-> <<t[i][1], t[i][2], i>>]
          /\ frame_count = Len(t)
    /\ \E f \in FoldOutcomes :
          /\ frame_count = 0 => f[3] = None
          /\ person_x_hint = f[1]
          /\ scale = f[2]
          /\ pose_result = f[3]
    /\ origin_x = None
    /\ landing = None
    /\ result = None
    /\ exc = FALSE
    /\ calls \in IF frame_count = 0 THEN { << >> }
                ELSE { FrameCalls(w, FALSE) :
                          w \in {TRUE, PoseWanted(scale, person_x_hint)} }
    /\ key = None
    /\ frame = None
    /\ ServerInit

NextAnalyze ==
    \/ EndOfStream
    \/ Release

SpecAnalyze == InitAnalyze /\ [][NextAnalyze]_vars

----------------------------------------------------------------------------
(* The backend on its own: requests arrive for any id and interleave at    *)
(* their awaits; no video is processed.                                    *)

InitVerify ==
    /\ Init
    /\ cfg = [manual_scale_cm_per_px |-> None, manual_origin_x |-> None,
              athlete_height_cm |-> 150, show_preview |-> FALSE]

NextVerify ==
    \/ \E r \in Requests, id \in CandidateIds : BadId(r, id)
    \/ \E r \in Requests, id \in CandidateIds : NotFound(r, id)
    \/ \E r \in Requests, id \in CandidateIds : FindOne(r, id)
    \/ \E r \in Requests : UpdateOne(r)
    \/ \E r \in Requests : LogAudit(r)

SpecVerify == InitVerify /\ [][NextVerify]_vars

----------------------------------------------------------------------------
(* The two detectors on arbitrary frames: a frame is what MediaPipe and    *)
(* cv2.findContours make of it, [landmarks, contours].                     *)

\* visibilities on either side of the threshold
Visibilities == { landmark_visibility_threshold - 1, landmark_visibility_threshold }

\* bodies whose hip midpoint (x 400, y 171), ankle midpoint (x 430, y 300)
\* and nose are told apart by every number get_person_x computes
Bodies ==
    { [nose        |-> Landmark(405, ny, nv),
       left_hip    |-> Landmark(390, 170, lh),
       right_hip   |-> Landmark(411, 172, rh),
       left_ankle  |-> Landmark(420, 299, la),
       right_ankle |-> Landmark(441, 301, ra)] :
      ny \in { 100, 300 }, nv \in Visibilities, lh \in Visibilities,
      rh \in Visibilities, la \in Visibilities, ra \in Visibilities }

DetectLandmarks == { None } \cup { <<b>> : b \in Bodies }

\* area exactly the minimum; just above it; two of one area with different
\* centroids; a larger one without mass
ContourShapes ==
    { Contour(min_ball_area, 15, 1500, 750),
      Contour(min_ball_area + 1, 16, 320, 320),
      Contour(40, 40, 4039, 2039),
      Contour(40, 40, 12000, 16000),
      Contour(60, 0, 0, 0) }

MaxContours == 3

DetectContours == UNION { [1..n -> ContourShapes] : n \in 0..MaxContours }

\* each detector on every input of its own, the other one on a plain frame
Frames ==
    { [landmarks |-> l, contours |-> << Contour(40, 40, 4039, 2039) >>] :
          l \in DetectLandmarks }
        \cup { [landmarks |-> None, contours |-> c] : c \in DetectContours }

InitDetect ==
    /\ cfg = [manual_scale_cm_per_px |-> None, manual_origin_x |-> None,
              athlete_height_cm |-> 150, show_preview |-> FALSE]
    /\ pc = "init"
    /\ cap = "none"
    /\ frame_count = 0
    /\ scale = None
    /\ person_x_hint = None
    /\ pose_result = None
    /\ all_balls = << >>
    /\ origin_x = None
    /\ landing = None
    /\ result = None
    /\ exc = FALSE
    /\ calls = << >>
    /\ key = None
    /\ frame \in Frames
    /\ ServerInit

\* lines 370-371 and 384: the detectors are handed the frame just read
DetectFrame ==
    \E k \in Keys : ProcessFrame(get_person_x(frame.landmarks), detect(frame.contours), k)

NextDetect ==
    \/ OpenVideo
    \/ DetectFrame
    \/ EndOfStream
    \/ Release

\* a video that shows the same picture on every frame
SpecDetect == InitDetect /\ [][NextDetect]_vars

----------------------------------------------------------------------------
(* Vocabulary of the properties *)

Returned(st) == result # None /\ result.status = st

\* the step in which cap.read() reports the end of the source
EndOfStreamStep == pc = "loop" /\ pc' = "finally" /\ frame_count' = frame_count

\* the step in which one frame is read and folded
FrameStep == pc = "loop" /\ frame_count' = frame_count + 1

----------------------------------------------------------------------------
(* C1: when the source is consumed to its end and fewer than 3 ball        *)
(* observations were collected (n = 0, 1 or 2), the result is INVALID with *)
(* trajectory_points = n and no distance; such a run is never VALID.       *)
C1_TooFewIsInvalid ==
    [][ (EndOfStreamStep /\ Len(all_balls) < 3)
            => /\ result' # None
               /\ result'.status = "INVALID"
               /\ result'.trajectory_points = Len(all_balls)
               /\ result'.distance_cm = None
               /\ result'.distance_m = None ]_vars

\* a run that ended with exactly two observations has been reported
C1_Witness ==
    /\ pc = "done"
    /\ Returned("INVALID")
    /\ Len(all_balls) = 2
    /\ result.trajectory_points = 2

(* C2: every VALID result has distance_cm >= 0, equal to                   *)
(* |landing_x - origin_x| * calibration_scale rounded to 2 decimals, for   *)
(* every configuration, manual scales included.                            *)
C2_DistanceFormula ==
    Returned("VALID") =>
        /\ result.distance_cm[1] >= 0
        /\ result.distance_cm[1] =
              RoundHalfEven(Abs(landing[1] - origin_x[1])
                               * result.calibration_scale[1] * 100,
                            result.calibration_scale[2])

(* C3: a manual origin x in the configuration, whatever its value, is the  *)
(* origin of every VALID result:                                           *)
(* distance_cm = |landing_x - manual_origin_x| * scale.                    *)
C3_ManualOriginWins ==
    (Returned("VALID") /\ cfg.manual_origin_x # None) =>
        /\ origin_x = cfg.manual_origin_x
        /\ result.distance_cm[1] =
              RoundHalfEven(Abs(landing[1] - cfg.manual_origin_x[1])
                               * result.calibration_scale[1] * 100,
                            result.calibration_scale[2])

(* C4: within one run, a scale derived from a person signal keeps its     *)
(* value in every later state, whatever later frames show, and it is the   *)
(* scale the VALID result reports.                                         *)
C4_DerivedScaleKept ==
    [][ (cfg.manual_scale_cm_per_px = None /\ pc = "loop" /\ scale # None)
            => /\ scale' = scale
               /\ (result' # None /\ result'.status = "VALID")
                      => result'.calibration_scale = scale ]_vars

\* a VALID result of a four-frame run reports a derived scale
C4_Witness ==
    /\ pc = "done"
    /\ Returned("VALID")
    /\ cfg.manual_scale_cm_per_px = None
    /\ result.calibration_scale # <<1, 2>>
    /\ frame_count > 3

\* athlete_height_cm / pixelHeight lies in [0.2, 1.5]
RatioInRange(h, ph) == 5 * h * ph[2] >= ph[1] /\ 2 * h * ph[2] <= 3 * ph[1]

\* pixelHeight > 30
Above30(ph) == ph[1] > 30 * ph[2]

(* C5: a scale is derived only on a frame, met while no scale is set,      *)
(* whose signal has pixelHeight > 30 and athleteHeightCm / pixelHeight in  *)
(* [0.2, 1.5]; it is that ratio; a frame whose candidate fails leaves the  *)
(* scale unset; a derived scale is always within [0.2, 1.5].               *)
C5_DerivedScaleInRange ==
    /\ [][ (FrameStep /\ scale = None)
              => IF /\ pose_result' # None
                    /\ pose_result'[2] # None
                    /\ Above30(pose_result'[2])
                    /\ RatioInRange(cfg.athlete_height_cm, pose_result'[2])
                 THEN scale' = Rat(cfg.athlete_height_cm * pose_result'[2][2],
                                   pose_result'[2][1])
                 ELSE scale' = None ]_vars
    /\ [](  (cfg.manual_scale_cm_per_px = None /\ scale # None)
              => 5 * scale[1] >= scale[2] /\ 2 * scale[1] <= 3 * scale[2] )

\* the scale was derived on a later frame than the one that set the hint
C5_Witness ==
    /\ pc = "loop"
    /\ cfg.manual_scale_cm_per_px = None
    /\ scale # None
    /\ person_x_hint # None
    /\ pose_result[1] # person_x_hint[1]

(* C6 as stated: a signal with a pixel height, seen while no scale is set  *)
(* and not adopted, has athleteHeightCm / pixelHeight outside [0.2, 1.5].  *)
C6_RejectedIsOutOfRange ==
    [][ (/\ FrameStep
         /\ scale = None
         /\ pose_result' # None
         /\ pose_result'[2] # None
         /\ scale' = None)
            => ~RatioInRange(cfg.athlete_height_cm, pose_result'[2]) ]_vars

(* C6 amended: a signal with a pixel height greater than 30, seen while no *)
(* scale is set and not adopted, has athleteHeightCm / pixelHeight outside *)
(* [0.2, 1.5].                                                             *)
C6_RejectedAbove30IsOutOfRange ==
    [][ (/\ FrameStep
         /\ scale = None
         /\ pose_result' # None
         /\ pose_result'[2] # None
         /\ Above30(pose_result'[2])
         /\ scale' = None)
            => ~RatioInRange(cfg.athlete_height_cm, pose_result'[2]) ]_vars

\* a candidate above 30 px has just been rejected
C6_Witness ==
    /\ pc = "loop"
    /\ frame_count > 0
    /\ scale = None
    /\ pose_result # None
    /\ pose_result[2] # None
    /\ Above30(pose_result[2])

(* C7: the landing point is the point of largest y of the trajectory       *)
(* handed to landing resolution (after any static filtering), the earliest *)
(* in trajectory order among those of the largest y.                       *)
C7_LandingIsFirstMaxY ==
    Returned("VALID") =>
        \E i \in 1..Len(all_balls) :
            /\ landing = all_balls[i]
            /\ \A j \in 1..Len(all_balls) : all_balls[j][2] <= landing[2]
            /\ \A j \in 1..(i - 1) : all_balls[j][2] < landing[2]

\* points were filtered out and two points of different x share the largest y
C7_Witness ==
    /\ Returned("VALID")
    /\ Len(all_balls) < frame_count
    /\ \E j \in 1..Len(all_balls) :
          all_balls[j][2] = landing[2] /\ all_balls[j][1] # landing[1]

(* C8: a run that consumes the whole source with at least 3 observations   *)
(* returns VALID with distance_cm, distance_m and calibration_scale all    *)
(* set; distance_cm and distance_m are set only in VALID results.          *)
C8_ValidIsPopulated ==
    /\ [][ (EndOfStreamStep /\ Len(all_balls) >= 3)
              => /\ result' # None
                 /\ result'.status = "VALID"
                 /\ result'.distance_cm # None
                 /\ result'.distance_m # None
                 /\ result'.calibration_scale # None ]_vars
    /\ []( (result # None /\ (result.distance_cm # None \/ result.distance_m # None))
              => result.status = "VALID" )

\* a four-frame run with a frame without detection has returned VALID
C8_Witness ==
    /\ pc = "done"
    /\ Returned("VALID")
    /\ result.trajectory_points = 3
    /\ frame_count = 4
    /\ result.distance_cm # None

\* the state of the pipeline, section 4.7
Status ==
    IF result # None THEN result.status
    ELSE IF pc = "init" THEN "INIT"
    ELSE "RUNNING"

C10_ReleasedBeforeReport ==
    /\ (pc = "done" /\ cap # "none") => cap = "released"
    /\ cap = "released" => pc = "done"

----------------------------------------------------------------------------
(* C11: when the video path does not exist or the source cannot be opened, *)
(* process_video returns ERROR with an error message; no frame was read,   *)
(* no detector was invoked, and the result carries no partial data:        *)
(* distance_cm, distance_m and calibration_scale are None and              *)
(* trajectory_points is 0.                                                 *)
C11_ErrorIsImmediate ==
    /\ [][ (pc = "init" /\ pc' = "done")
              => (result' # None /\ result'.status = "ERROR") ]_vars
    /\ []( Returned("ERROR")
              => /\ result.error_message # None
                 /\ frame_count = 0
                 /\ calls = << >>
                 /\ all_balls = << >>
                 /\ result.distance_cm = None
                 /\ result.distance_m = None
                 /\ result.calibration_scale = None
                 /\ result.trajectory_points = 0 )

\* a source that exists and cannot be opened has been reported
C11_Witness ==
    /\ pc = "done"
    /\ Returned("ERROR")
    /\ cap = "unopened"
    /\ result.error_message = <<"Cannot open video">>

\* the positions of a call in the calls of a pass
CallsOf(name, cs) == { i \in 1..Len(cs) : cs[i] = name }

(* C12: the keyboard is polled at most once per frame, and only after that *)
(* frame's person-signal extraction, ball detection and fold; when the     *)
(* poll returns the cancel key the run ends at once with CANCELLED, the    *)
(* accumulated data is discarded (trajectory_points = 0, distance_cm,      *)
(* distance_m, calibration_scale and error_message None) and no further    *)
(* frame is read.                                                          *)
C12_PollAfterFold ==
    /\ [][ FrameStep
              => /\ Cardinality(CallsOf("waitKey", calls')) <= 1
                 /\ \A i \in CallsOf("waitKey", calls') :
                        /\ i = Len(calls')
                        /\ CallsOf("detect", calls') # {}
                        /\ \A j \in CallsOf("detect", calls')
                                     \cup CallsOf("get_person_x", calls') : j < i
                 /\ (key' # None) = (CallsOf("waitKey", calls') # {})
                 /\ key' = <<"q">>
                        => /\ result' = MeasurementResult("CANCELLED", None, None,
                                                          None, 0, None)
                           /\ pc' # "loop" ]_vars
    /\ [][ Returned("CANCELLED")
              => /\ frame_count' = frame_count
                 /\ calls' = calls
                 /\ result' = result ]_vars

\* a run was cancelled on its third frame with two observations collected
C12_Witness ==
    /\ Returned("CANCELLED")
    /\ key = <<"q">>
    /\ frame_count = 3
    /\ Len(all_balls) >= 2
    /\ result.trajectory_points = 0

(* C13: a manual scale is the scale from the moment the source is opened;  *)
(* no person signal and no default replaces it; every VALID result reports *)
(* calibration_scale equal to the manual value, also when that value lies  *)
(* outside [0.2, 1.5].                                                     *)
C13_ManualScaleKept ==
    /\ (cfg.manual_scale_cm_per_px # None /\ cap \in {"open", "released"})
          => scale = cfg.manual_scale_cm_per_px
    /\ (cfg.manual_scale_cm_per_px # None /\ Returned("VALID"))
          => result.calibration_scale = cfg.manual_scale_cm_per_px

\* a VALID result reports a manual scale outside [0.2, 1.5] although a frame
\* of the run carried an adoptable candidate
C13_Witness ==
    /\ pc = "done"
    /\ Returned("VALID")
    /\ cfg.manual_scale_cm_per_px = <<-1, 2>>
    /\ result.calibration_scale = <<-1, 2>>
    /\ pose_result # None
    /\ pose_result[2] # None
    /\ Above30(pose_result[2])
    /\ RatioInRange(cfg.athlete_height_cm, pose_result[2])

(* C14 as stated: a VALID result reports calibration_scale = 0.5 exactly   *)
(* when no manual scale was supplied and no frame yielded an adoptable     *)
(* derived scale.                                                          *)
C14_DefaultIffNothingKnown ==
    [][ (EndOfStreamStep /\ result' # None /\ result'.status = "VALID")
            => ( (result'.calibration_scale = <<1, 2>>)
                   <=> (cfg.manual_scale_cm_per_px = None /\ scale = None) ) ]_vars

(* C14 amended: a VALID result reports calibration_scale = 0.5 whenever no *)
(* manual scale was supplied and no frame yielded an adoptable derived     *)
(* scale; the default is substituted only after all frames are consumed    *)
(* (while frames are read an unset scale changes only to a derived one)    *)
(* and the status stays VALID.                                             *)
C14_DefaultWhenNothingKnown ==
    /\ [][ (EndOfStreamStep /\ Len(all_balls) >= 3
               /\ cfg.manual_scale_cm_per_px = None /\ scale = None)
              => /\ result' # None
                 /\ result'.status = "VALID"
                 /\ result'.calibration_scale = <<1, 2>> ]_vars
    /\ [][ (FrameStep /\ scale = None /\ scale' # None)
              => /\ pose_result' # None
                 /\ pose_result'[2] # None
                 /\ scale' = Rat(cfg.athlete_height_cm * pose_result'[2][2],
                                 pose_result'[2][1]) ]_vars

\* the default was reported after a frame whose candidate was not adoptable
C14_Witness ==
    /\ pc = "done"
    /\ Returned("VALID")
    /\ cfg.manual_scale_cm_per_px = None
    /\ scale = <<1, 2>>
    /\ result.calibration_scale = <<1, 2>>
    /\ pose_result # None
    /\ pose_result[2] # None
    /\ ~RatioInRange(cfg.athlete_height_cm, pose_result[2])

----------------------------------------------------------------------------
(* Vocabulary of the claims about the analysis *)

\* the step in which a trajectory of at least 3 observations is analysed
AnalysisStep == EndOfStreamStep /\ Len(all_balls) >= 3

\* the collected observations within 200 px of the person hint
NearHint == { i \in 1..Len(all_balls) :
                 Abs(all_balls[i][1] - person_x_hint[1]) < 200 }

\* a person hint is known and no collected observation is near it
HintFar == person_x_hint # None /\ NearHint = {}

\* the first index of the largest y
FirstMaxY(balls) ==
    CHOOSE i \in 1..Len(balls) :
        /\ \A j \in 1..Len(balls) : balls[j][2] <= balls[i][2]
        /\ \A j \in 1..(i - 1) : balls[j][2] < balls[i][2]

\* width-50 bins: the start of the bin of x and the number of points in a bin
BinStart(x) == (x \div 50) * 50
BinSize(balls, b) == Cardinality({ i \in 1..Len(balls) : BinStart(balls[i][1]) = b })

\* the modal bin, the earliest seen among the bins of the largest size
ModalBin(balls) ==
    LET size == [i \in 1..Len(balls) |-> BinSize(balls, BinStart(balls[i][1]))]
        i == CHOOSE k \in 1..Len(balls) :
                 /\ \A j \in 1..Len(balls) : size[j] <= size[k]
                 /\ \A j \in 1..(k - 1) : size[j] < size[k]
    IN  BinStart(balls[i][1])

\* the trajectory without the points within 75 px of a bin centre
WithoutCluster(balls, centre) ==
    SelectSeq(balls, LAMBDA b : Abs(b[1] - centre) > 75)

\* the indices i (1-based) of the triples (i, i+2) with |x[i+2] - x[i]| > 20,
\* over every triple of the trajectory
MovingTriples(balls) ==
    { i \in 1..(Len(balls) - 2) : Abs(balls[i + 2][1] - balls[i][1]) > 20 }

(* C15: with a person hint known, no trajectory point near it and no       *)
(* manual origin, the origin is found by scanning every triple (i, i+2) of *)
(* the (possibly filtered) trajectory in increasing order: for the first i *)
(* with |x[i+2] - x[i]| > 20 it is the x one point before i (the first     *)
(* point when i is the first), and the first x when there is no such i.    *)
C15_ScanEveryTriple ==
    [][ (AnalysisStep /\ HintFar /\ cfg.manual_origin_x = None)
            => origin_x' =
                  IF MovingTriples(all_balls') = {}
                  THEN <<all_balls'[1][1]>>
                  ELSE <<all_balls'[Max({1, Min(MovingTriples(all_balls')) - 1})][1]>>
      ]_vars

(* C16: with a person hint known and no trajectory point near it, the x    *)
(* values are put in width-50 bins; if the modal bin (the earliest seen    *)
(* among equals) holds strictly more than 40% of all points, every point   *)
(* within 75 px of its centre (start + 25) is removed, provided at least 3 *)
(* points remain; in every other case the trajectory is left unchanged.    *)
C16_StaticFilter ==
    [][ (AnalysisStep /\ HintFar)
            => \E m \in { ModalBin(all_balls) } :
                 \E kept \in { WithoutCluster(all_balls, m + 25) } :
                    all_balls' = IF /\ 5 * BinSize(all_balls, m) > 2 * Len(all_balls)
                                    /\ Len(kept) >= 3
                                 THEN kept
                                 ELSE all_balls ]_vars

\* three of six observations were removed and the three kept share one bin:
\* two bins tied for the largest size
C16_Witness ==
    /\ Returned("VALID")
    /\ person_x_hint # None
    /\ frame_count = 6
    /\ Len(all_balls) = 3
    /\ BinSize(all_balls, BinStart(all_balls[1][1])) = 3

(* C17: with a person hint known, no manual origin and a trajectory point  *)
(* within 200 px of the hint, the origin is the x of the earliest such     *)
(* point, no point is filtered out, no movement scan decides the origin,   *)
(* and the landing point is taken from the full collected trajectory.      *)
C17_OriginNearPerson ==
    [][ (/\ AnalysisStep
         /\ person_x_hint # None
         /\ cfg.manual_origin_x = None
         /\ NearHint # {})
            => /\ origin_x' = <<all_balls[Min(NearHint)][1]>>
               /\ all_balls' = all_balls
               /\ landing' = all_balls[FirstMaxY(all_balls)]
               /\ result'.trajectory_points = Len(all_balls) ]_vars

\* the origin is a point near the person that is not the first collected one,
\* in a trajectory whose first three points sit in one bin
C17_Witness ==
    /\ Returned("VALID")
    /\ person_x_hint = <<0>>
    /\ cfg.manual_origin_x = None
    /\ Len(all_balls) = 6
    /\ BinSize(all_balls, BinStart(all_balls[1][1])) = 3
    /\ Abs(all_balls[1][1] - 0) >= 200
    /\ origin_x # <<all_balls[1][1]>>

(* C18: when no frame yielded a person signal and no manual origin is      *)
(* given, the origin of a VALID result is the x of the first collected     *)
(* observation, whatever the later points are, and no point is removed.    *)
C18_OriginWithoutPerson ==
    [][ (AnalysisStep /\ person_x_hint = None /\ cfg.manual_origin_x = None)
            => /\ result'.status = "VALID"
               /\ origin_x' = <<all_balls[1][1]>>
               /\ all_balls' = all_balls
               /\ result'.trajectory_points = Len(all_balls) ]_vars

\* no person was seen; three points in one bin are followed by movement
C18_Witness ==
    /\ Returned("VALID")
    /\ person_x_hint = None
    /\ pose_result = None
    /\ cfg.manual_origin_x = None
    /\ Len(all_balls) = 6
    /\ all_balls[1][1] = 620
    /\ all_balls[2][1] = 620
    /\ all_balls[3][1] = 620
    /\ all_balls[4][1] = 100
    /\ all_balls[6][1] = 300
    /\ origin_x = <<620>>

(* C19: a manual origin skips all heuristics: the static-cluster filter is *)
(* not applied, so the landing point and trajectory_points of the VALID    *)
(* result are computed over all collected observations, as they are for    *)
(* the same frames without a person hint.                                  *)
C19_ManualOriginSkipsFilter ==
    [][ (AnalysisStep /\ cfg.manual_origin_x # None)
            => /\ all_balls' = all_balls
               /\ landing' = all_balls[FirstMaxY(all_balls)]
               /\ result'.trajectory_points = Len(all_balls) ]_vars

(* C20 as stated: in every VALID result no observation collected during    *)
(* the run has a y greater than the y of the landing point.                *)
C20_LandingIsGlobalMaxY ==
    [][ AnalysisStep
            => \A i \in 1..Len(all_balls) : all_balls[i][2] <= landing'[2] ]_vars

(* C20 amended: in every VALID result the landing point is an observation  *)
(* of the trajectory left by the static-cluster filter and no observation  *)
(* of that trajectory has a greater y; a collected observation of greater  *)
(* y is one the filter removed (person hint known, no point near it,       *)
(* within 75 px of the centre of the modal bin).                           *)
C20_LandingIsMaxYOfKept ==
    [][ AnalysisStep
            => /\ \E i \in 1..Len(all_balls') : landing' = all_balls'[i]
               /\ \A i \in 1..Len(all_balls') : all_balls'[i][2] <= landing'[2]
               /\ \A i \in 1..Len(all_balls) :
                      all_balls[i][2] > landing'[2]
                         => /\ HintFar
                            /\ Abs(all_balls[i][1] - ModalBin(all_balls) - 25) <= 75
      ]_vars

\* the bin at 600, whose points have the largest y, was filtered out: points
\* of the two other bins were kept and the landing point has y = 400
C20_Witness ==
    /\ Returned("VALID")
    /\ Len(all_balls) < frame_count
    /\ landing[2] = 400
    /\ \E j \in 1..Len(all_balls) : BinStart(all_balls[j][1]) = 100

----------------------------------------------------------------------------
(* C21: the person hint is set to the x of the first non-null person       *)
(* signal of the run, also when that signal carries no usable height and   *)
(* also when that x is 0; once set it keeps its value in every later       *)
(* state.                                                                  *)
C21_FirstSignalIsHint ==
    /\ [][ (FrameStep /\ person_x_hint = None)
              => /\ CallsOf("get_person_x", calls') # {}
                 /\ person_x_hint' = IF pose_result' # None
                                     THEN <<pose_result'[1]>>
                                     ELSE None ]_vars
    /\ [][ person_x_hint # None => person_x_hint' = person_x_hint ]_vars

\* the hint 0 came from a signal and a later signal, at x = 900, was folded
C21_Witness ==
    /\ pc = "done"
    /\ person_x_hint = <<0>>
    /\ pose_result # None
    /\ pose_result[1] = 900
    /\ frame_count >= 3

(* C22: on every frame read, from the first to the last, both the          *)
(* person-signal extractor and the ball detector are invoked, and the      *)
(* origin, landing and distance steps run once, only after all frames are  *)
(* consumed.                                                               *)
C22_BothDetectorsEveryFrame ==
    /\ [][ FrameStep
              => /\ CallsOf("get_person_x", calls') # {}
                 /\ CallsOf("detect", calls') # {} ]_vars
    /\ [][ (origin_x' # origin_x \/ landing' # landing)
              => (EndOfStreamStep /\ origin_x = None /\ landing = None) ]_vars

(* C26: in every state of the frame loop the trajectory holds at most one  *)
(* observation per frame, its frame indices increase strictly and lie      *)
(* between 1 and the number of frames read; a frame leaves the trajectory  *)
(* unchanged or appends exactly one observation, tagged with that frame,   *)
(* without altering the earlier ones.                                      *)
C26_TrajectoryOrdered ==
    /\ []( pc = "loop"
              => /\ \A i \in 1..Len(all_balls) :
                        all_balls[i][3] \in 1..frame_count
                 /\ \A i, j \in 1..Len(all_balls) :
                        i < j => all_balls[i][3] < all_balls[j][3] )
    /\ [][ FrameStep
              => \/ all_balls' = all_balls
                 \/ /\ Len(all_balls') = Len(all_balls) + 1
                    /\ SubSeq(all_balls', 1, Len(all_balls)) = all_balls
                    /\ all_balls'[Len(all_balls')][3] = frame_count' ]_vars

\* two observations, of the second and the fourth frame
C26_Witness ==
    /\ pc = "loop"
    /\ frame_count = 4
    /\ Len(all_balls) = 2
    /\ all_balls[1][3] = 2
    /\ all_balls[2][3] = 4

(* C23: with the preview disabled, for every finite source and every       *)
(* sequence of detector outcomes (frames on which both detectors find      *)
(* nothing included), each pass of the loop reads one new frame, no frame  *)
(* is read again, and the run reaches a terminal status, which is VALID or *)
(* INVALID and never ERROR.                                                *)
C23_NoPreviewTerminates ==
    /\ [][ (pc = "loop" /\ pc' = "loop")
              => /\ frame_count' = frame_count + 1
                 /\ Cardinality(CallsOf("read", calls')) = 1 ]_vars
    /\ []( cap \in {"open", "released"} => ~Returned("ERROR") )
    /\ (pc = "loop")
          ~> (pc = "done" /\ (Returned("VALID") \/ Returned("INVALID")))

\* a source of four frames on which neither detector found anything
C23_Witness ==
    /\ pc = "done"
    /\ ~cfg.show_preview
    /\ Returned("INVALID")
    /\ frame_count = 4
    /\ all_balls = << >>
    /\ person_x_hint = None
    /\ CallsOf("waitKey", calls) = {}

----------------------------------------------------------------------------
(* C24: get_person_x returns a position computed from the hip midpoint     *)
(* whenever both hips have visibility >= threshold (also when both ankles  *)
(* are visible too), from the ankle midpoint when the hips do not both     *)
(* qualify but both ankles do, and None (no position, no height) when      *)
(* neither pair qualifies or no landmarks were detected.                   *)
C24_HipsThenAnkles ==
    [][ (FrameStep /\ CallsOf("get_person_x", calls') # {}) =>
          IF frame.landmarks = None THEN pose_result' = None
          ELSE LET lm == frame.landmarks[1]
                   vis == landmark_visibility_threshold
               IN  IF lm.left_hip.vis >= vis /\ lm.right_hip.vis >= vis
                   THEN /\ pose_result' # None
                        /\ pose_result'[1] = (lm.left_hip.x + lm.right_hip.x) \div 2
                   ELSE IF lm.left_ankle.vis >= vis /\ lm.right_ankle.vis >= vis
                   THEN /\ pose_result' # None
                        /\ pose_result'[1] = (lm.left_ankle.x + lm.right_ankle.x) \div 2
                   ELSE pose_result' = None ]_vars

\* hips and ankles all visible: the position is the hip midpoint 400
C24_Witness ==
    /\ pc = "loop" /\ frame_count = 1
    /\ frame.landmarks # None
    /\ frame.landmarks[1].left_hip.vis >= landmark_visibility_threshold
    /\ frame.landmarks[1].right_hip.vis >= landmark_visibility_threshold
    /\ frame.landmarks[1].left_ankle.vis >= landmark_visibility_threshold
    /\ frame.landmarks[1].right_ankle.vis >= landmark_visibility_threshold
    /\ pose_result # None /\ pose_result[1] = 400
    /\ person_x_hint = <<400>>

----------------------------------------------------------------------------
(* C25: when get_person_x returns a position, the height it returns is     *)
(* None if and only if the nose visibility is below the threshold;         *)
(* otherwise the height is |ankleMidY - noseY| when both ankles are        *)
(* visible (preferred even when both hips are visible), and                *)
(* |hipMidY - noseY| / 0.35 when the ankles do not both qualify.           *)
C25_HeightFromNose ==
    [][ (FrameStep /\ CallsOf("get_person_x", calls') # {} /\ pose_result' # None) =>
          LET lm == frame.landmarks[1]
              vis == landmark_visibility_threshold
              h == pose_result'[2]
          IN  /\ (h = None) <=> (lm.nose.vis < vis)
              /\ lm.nose.vis >= vis =>
                    IF lm.left_ankle.vis >= vis /\ lm.right_ankle.vis >= vis
                    THEN \* 2 * h = |ankle sum - 2 * nose|
                         h[1] * 2 = Abs(lm.left_ankle.y + lm.right_ankle.y - 2 * lm.nose.y) * h[2]
                    ELSE \* 0.35 * 2 * h = |hip sum - 2 * nose|
                         h[1] * 2 * 35 = Abs(lm.left_hip.y + lm.right_hip.y - 2 * lm.nose.y) * 100 * h[2] ]_vars

\* hips, ankles and nose all visible: height 200 from the ankles, where the
\* torso estimate would be 71 / 0.35
C25_Witness ==
    /\ pc = "loop" /\ frame_count = 1
    /\ frame.landmarks # None
    /\ frame.landmarks[1].nose.y = 100
    /\ frame.landmarks[1].left_hip.vis >= landmark_visibility_threshold
    /\ frame.landmarks[1].right_hip.vis >= landmark_visibility_threshold
    /\ pose_result # None /\ pose_result[2] = <<200, 1>>
    /\ scale = <<3, 4>>

----------------------------------------------------------------------------
(* C27: detect returns at most one position per frame: among the contours  *)
(* whose area is strictly greater than min_ball_area it selects the one of *)
(* largest area (the first encountered among equal largest areas) and      *)
(* returns its centroid; it returns None, never an error, when no contour  *)
(* exceeds the minimum or when the selected contour has m00 = 0, without   *)
(* falling back to another contour.                                        *)
C27_LargestQualifyingContour ==
    [][ FrameStep =>
          LET cs == frame.contours
              Q == { i \in 1..Len(cs) : cs[i].area > min_ball_area }
          IN  IF Q = {} THEN all_balls' = all_balls
              ELSE LET b == CHOOSE i \in Q :
                                /\ \A j \in Q : cs[j].area <= cs[i].area
                                /\ \A j \in Q : j < i => cs[j].area < cs[i].area
                   IN  IF cs[b].m00 = 0 THEN all_balls' = all_balls
                       ELSE all_balls' =
                                Append(all_balls, <<cs[b].m10 \div cs[b].m00,
                                                    cs[b].m01 \div cs[b].m00,
                                                    frame_count'>>) ]_vars

\* two contours of the largest area 40 after a small one: the first of the
\* two, with centroid (100, 50), is the observation
C27_Witness ==
    /\ pc = "loop" /\ frame_count = 1
    /\ frame.contours = << Contour(min_ball_area + 1, 16, 320, 320),
                           Contour(40, 40, 4039, 2039),
                           Contour(40, 40, 12000, 16000) >>
    /\ all_balls = << <<100, 50, 1>> >>

----------------------------------------------------------------------------
\* the x range of a trajectory: max x - min x
SpanX(balls) ==
    Max({ balls[i][1] : i \in 1..Len(balls) }) - Min({ balls[i][1] : i \in 1..Len(balls) })

(* C28 as stated: when no manual origin is supplied, in every VALID result *)
(* the resolved origin x is the x of some observation of the trajectory    *)
(* used for landing detection (the collected trajectory after any          *)
(* static-cluster filtering); hence distance_cm never exceeds              *)
(* (max x - min x) of that trajectory times the scale.                     *)
C28_OriginBoundsDistance ==
    [][ (AnalysisStep /\ cfg.manual_origin_x = None)
            => /\ \E i \in 1..Len(all_balls') : origin_x'[1] = all_balls'[i][1]
               \* distance_cm is in 1/100 cm
               /\ result'.distance_cm[1] * result'.calibration_scale[2]
                     <= SpanX(all_balls') * result'.calibration_scale[1] * 100 ]_vars

(* C28 amended: when no manual origin is supplied, in every VALID result   *)
(* the resolved origin x is the x of some observation of the trajectory    *)
(* used for landing detection; hence the pixel distance                    *)
(* |landing x - origin x| never exceeds (max x - min x) of that            *)
(* trajectory, and |distance_cm|, its product with the scale rounded to    *)
(* two decimals, exceeds (max x - min x) * |scale| by at most 0.005.       *)
C28_OriginIsObserved ==
    [][ (AnalysisStep /\ cfg.manual_origin_x = None)
            => /\ \E i \in 1..Len(all_balls') : origin_x'[1] = all_balls'[i][1]
               /\ Abs(landing'[1] - origin_x'[1]) <= SpanX(all_balls')
               /\ 2 * Abs(result'.distance_cm[1]) * result'.calibration_scale[2]
                     <= 2 * SpanX(all_balls') * Abs(result'.calibration_scale[1]) * 100
                           + result'.calibration_scale[2] ]_vars

\* origin 100 and landing 620 are the two ends of the trajectory and the
\* scale is 2/3: 520 * 2/3 = 346.666... is reported as 346.67
C28_Witness ==
    /\ Returned("VALID")
    /\ cfg.manual_origin_x = None
    /\ origin_x = <<100>> /\ landing[1] = 620
    /\ scale = <<2, 3>>
    /\ result.distance_cm = <<34667>>

----------------------------------------------------------------------------
(* C29: in every VALID result trajectory_points is at least 3 and at most  *)
(* the number of ball observations collected over the frames, and it       *)
(* equals the number collected unless the static-cluster filter removed    *)
(* points (person hint known, no point within 200 px of it, modal bin      *)
(* above 40%, at least 3 points remaining).                                *)
C29_TrajectoryPoints ==
    [][ AnalysisStep
            => LET tp == result'.trajectory_points
                   remaining == WithoutCluster(all_balls, ModalBin(all_balls) + 25)
                   removed == /\ HintFar
                              /\ 5 * BinSize(all_balls, ModalBin(all_balls))
                                    > 2 * Len(all_balls)
                              /\ Len(remaining) >= 3
               IN  /\ result'.status = "VALID"
                   /\ tp >= 3
                   /\ tp <= Len(all_balls)
                   /\ tp # Len(all_balls) => removed
                   /\ removed => tp = Len(remaining) /\ tp < Len(all_balls) ]_vars

\* six observations collected, the three of the modal bin at 100 (x = 100
\* and 120, frames 2, 4 and 6) removed
C29_Witness ==
    /\ Returned("VALID")
    /\ frame_count = 6
    /\ result.trajectory_points = 3
    /\ \A i \in 1..Len(all_balls) : all_balls[i][1] >= 300
    /\ all_balls[1][3] = 1 /\ all_balls[2][3] = 3 /\ all_balls[3][3] = 5

----------------------------------------------------------------------------
\* the audit entries a request wrote
EntriesOf(r) == { i \in 1..Len(admin_audit) : admin_audit[i].request = r }

(* C30: for any interleaving of concurrent verify_candidate requests on    *)
(* the same existing candidate, each request writes exactly one audit      *)
(* entry and that entry's before field equals the verification value its   *)
(* own update replaced, so the entries of a candidate ordered by update    *)
(* form a chain (each before is the previous after); a request for a       *)
(* candidate that does not exist returns 404, changes no candidate and     *)
(* writes no audit entry.                                                  *)
C30_AuditChain ==
    /\ \A r \in Requests :
          requests[r].response = <<200>>
             => /\ Cardinality(EntriesOf(r)) = 1
                /\ \A i \in EntriesOf(r) :
                       /\ replaced[r] # None
                       /\ admin_audit[i].before = replaced[r][1]
                       /\ admin_audit[i].after = NewStatus(r)
    /\ \A r \in Requests :
          (requests[r].pc = "done" /\ requests[r].candidate_id[1] \in WellFormedIds \ DOMAIN users)
             => /\ requests[r].response = <<404>>
                /\ EntriesOf(r) = {}
                /\ replaced[r] = None

====
